---------------------------- MODULE Spec2Model ----------------------------
(***************************************************************************)
(* Model of lib/rules/no-restricted-imports.js: the rule's create()        *)
(* (option normalisation, the exact-path table, the ordered pattern        *)
(* matchers) and the three statement listeners that funnel into            *)
(* checkNode -> checkRestrictedPathAndReport, checkRestrictedPatternAnd-   *)
(* Report.                                                                 *)
(*                                                                         *)
(* Representation of JavaScript values:                                    *)
(*  - a module-source or pattern string is the sequence of its "/"-        *)
(*    separated segments; leading/trailing white space is a " " token      *)
(*  - an object is a record; a property that is missing (or undefined) is  *)
(*    a field outside the record's DOMAIN                                  *)
(*  - an array is a sequence; a Map is a function on its key set           *)
(***************************************************************************)
EXTENDS Naturals, Sequences, FiniteSets, TLC

VARIABLES options, phase, listeners, restrictedPathMessages,
          restrictedPatternMatchers, node, outcome, importSource,
          importNames, reports

vars == <<options, phase, listeners, restrictedPathMessages,
          restrictedPatternMatchers, node, outcome, importSource,
          importNames, reports>>

----------------------------------------------------------------------------
(* Bounds of the explored inputs *)

MaxRules == 2

MaxSpecifiers == 2

----------------------------------------------------------------------------
(* JavaScript values *)

Undefined == "<undefined>"

Null == "<null>"

Truthy(v) == v \notin {Undefined, Null, ""}

Get(obj, key) == IF key \in DOMAIN obj THEN obj[key] ELSE Undefined

EmptyObject == [k \in {} |-> Undefined]

ToPropertyKey(obj) == IF "name" \in DOMAIN obj THEN obj.name ELSE <<"undefined">>

RECURSIVE TrimStart(_)
TrimStart(s) == IF s # <<>> /\ Head(s) = " " THEN TrimStart(Tail(s)) ELSE s

RECURSIVE TrimEnd(_)
TrimEnd(s) ==
    IF s # <<>> /\ s[Len(s)] = " " THEN TrimEnd(SubSeq(s, 1, Len(s) - 1)) ELSE s

Trim(s) == TrimEnd(TrimStart(s))

----------------------------------------------------------------------------
(* Input domains *)

Seqs(S, n) == UNION {[1..k -> S] : k \in 0..n}

DistinctSeqs(S, n) ==
    {s \in Seqs(S, n) : \A i, j \in 1..Len(s) : i # j => s[i] # s[j]}

PathNames == {<<"foo">>, <<"foo", "bar">>}

ScopedPathNames == {<<"foo", "bar">>}

Messages == {"m1"}

ImportNameLists == {<<"y", "x">>, <<"x", "x">>}

PatternStrings == {<<"foo", "*">>, <<"foo", "bar">>}

SourceValues == {<<" ", "foo", "bar", " ">>, <<"foo">>, <<"undefined">>}

PathItems ==
    {[type |-> "string", value |-> n] : n \in PathNames}
    \cup {[type |-> "object", name |-> n] : n \in ScopedPathNames}
    \cup {[type |-> "object", name |-> n, message |-> m] :
            n \in ScopedPathNames, m \in Messages}
    \cup {[type |-> "object", name |-> n, importNames |-> l] :
            n \in ScopedPathNames, l \in ImportNameLists}
    \cup {[type |-> "object", name |-> n, message |-> m, importNames |-> l] :
            n \in ScopedPathNames, m \in Messages, l \in {<<"y", "x">>}}

PatternItems ==
    {[type |-> "string", value |-> p] : p \in PatternStrings}
    \cup {[type |-> "object", pattern |-> p] : p \in {<<"foo", "bar">>}}
    \cup {[type |-> "object", pattern |-> p, message |-> m] :
            p \in {<<"foo", "bar">>}, m \in Messages}

PathLists == DistinctSeqs(PathItems, MaxRules)

PatternLists == DistinctSeqs(PatternItems, MaxRules)

PathsAndPatternsObjects ==
    {[type |-> "object"]}
    \cup {[type |-> "object", paths |-> ps] : ps \in PathLists}
    \cup {[type |-> "object", patterns |-> qs] : qs \in PatternLists}
    \cup UNION {{[type |-> "object", paths |-> ps, patterns |-> qs] :
                    qs \in {q \in PatternLists : Len(ps) + Len(q) <= MaxRules}} :
                ps \in PathLists}

Options == PathLists \cup {<<o>> : o \in PathsAndPatternsObjects}

ImportSpecifiers ==
    {[type |-> "ImportDefaultSpecifier", local |-> "z"],
     [type |-> "ImportNamespaceSpecifier", local |-> "z"]}
    \cup {[type |-> "ImportSpecifier", imported |-> n, local |-> "z"] :
            n \in {"x", "y"}}

ExportSpecifiers ==
    {[type |-> "ExportSpecifier", local |-> n, exported |-> "z"] :
            n \in {"x", "y"}}

ExportAllTokens ==
    {<<"export", "*", "from", "source">>,
     <<"export", "*", "as", "z", "from", "source">>}

ImportDeclarations ==
    {[type |-> "ImportDeclaration", source |-> s, specifiers |-> l] :
        s \in SourceValues, l \in Seqs(ImportSpecifiers, MaxSpecifiers)}

ExportNamedDeclarations ==
    {[type |-> "ExportNamedDeclaration", source |-> s, specifiers |-> l] :
        s \in SourceValues, l \in Seqs(ExportSpecifiers, MaxSpecifiers)}
    \cup {[type |-> "ExportNamedDeclaration", specifiers |-> l] :
        l \in Seqs(ExportSpecifiers, MaxSpecifiers)}

ExportAllDeclarations ==
    {[type |-> "ExportAllDeclaration", source |-> s, tokens |-> t] :
        s \in SourceValues, t \in ExportAllTokens}

NoNode == [type |-> "none"]

----------------------------------------------------------------------------
(* create(): option normalisation and the two rule tables *)

isPathAndPatternsObject(opts) ==
    /\ Len(opts) >= 1
    /\ opts[1].type = "object"
    /\ ("paths" \in DOMAIN opts[1] \/ "patterns" \in DOMAIN opts[1])

restrictedPaths(opts) ==
    IF isPathAndPatternsObject(opts)
    THEN (IF "paths" \in DOMAIN opts[1] THEN opts[1].paths ELSE <<>>)
    ELSE opts

restrictedPatterns(opts) ==
    IF isPathAndPatternsObject(opts)
    THEN (IF "patterns" \in DOMAIN opts[1] THEN opts[1].patterns ELSE <<>>)
    ELSE <<>>

NothingRestricted(opts) ==
    Len(restrictedPaths(opts)) = 0 /\ Len(restrictedPatterns(opts)) = 0

PathEntry(item) ==
    IF item.type = "string"
    THEN [message |-> Null]
    ELSE IF "importNames" \in DOMAIN item
         THEN [message |-> Get(item, "message"), importNames |-> item.importNames]
         ELSE [message |-> Get(item, "message")]

PathKey(item) == IF item.type = "string" THEN item.value ELSE ToPropertyKey(item)

Assign(memo, key, value) ==
    [k \in DOMAIN memo \cup {key} |-> IF k = key THEN value ELSE memo[k]]

(* Variant: the first rule configured for a source is kept *)
RECURSIVE ReducePathsKeepFirst(_, _)
ReducePathsKeepFirst(memo, items) ==
    IF items = <<>> THEN memo
    ELSE ReducePathsKeepFirst(
             IF PathKey(Head(items)) \in DOMAIN memo THEN memo
             ELSE Assign(memo, PathKey(Head(items)), PathEntry(Head(items))),
             Tail(items))

RECURSIVE ReducePaths(_, _)
ReducePaths(memo, items) ==
    IF items = <<>> THEN memo
    ELSE ReducePaths(Assign(memo, PathKey(Head(items)), PathEntry(Head(items))),
                     Tail(items))

PatternMatcher(patternObj) ==
    IF patternObj.type = "string"
    THEN [matcher |-> patternObj.value, pattern |-> patternObj.value,
          message |-> Null]
    ELSE [matcher |-> patternObj.pattern, pattern |-> patternObj.pattern,
          message |-> Get(patternObj, "message")]

MapPatterns(items) == [i \in 1..Len(items) |-> PatternMatcher(items[i])]

----------------------------------------------------------------------------
(* The gitignore-style matcher: ignore().add(pattern).ignores(path) *)

SegmentMatches(p, s) == p = "*" \/ p = s

Ignores(pattern, path) ==
    IF Len(pattern) = 1
    THEN \E i \in 1..Len(path) : SegmentMatches(pattern[1], path[i])
    ELSE /\ Len(path) >= Len(pattern)
         /\ \A i \in 1..Len(pattern) : SegmentMatches(pattern[i], path[i])

----------------------------------------------------------------------------
(* Diagnostics *)

NodeLoc == [at |-> "node", i |-> 0]

SpecifierLoc(i) == [at |-> "specifier", i |-> i]

TokenLoc(i) == [at |-> "token", i |-> i]

(* sourceCode.getFirstToken(node, skip) *)
GetFirstToken(n, skip) == TokenLoc(skip + 1)

RECURSIVE Flatten(_)
Flatten(ss) == IF ss = <<>> THEN <<>> ELSE Head(ss) \o Flatten(Tail(ss))

----------------------------------------------------------------------------
(* checkNode: the name extractor *)

SpecifierName(specifier) ==
    IF specifier.type = "ImportDefaultSpecifier" THEN "default"
    ELSE IF specifier.type = "ImportNamespaceSpecifier" THEN "*"
    ELSE IF "imported" \in DOMAIN specifier THEN specifier.imported
    ELSE IF "local" \in DOMAIN specifier THEN specifier.local
    ELSE Undefined

(* Variant: a repeated name-key replaces the occurrences recorded so far *)
MapSet(map, name, specifierData) == Assign(map, name, <<specifierData>>)

MapPush(map, name, specifierData) ==
    IF name \in DOMAIN map
    THEN [map EXCEPT ![name] = Append(@, specifierData)]
    ELSE Assign(map, name, <<specifierData>>)

RECURSIVE CollectNames(_, _, _)
CollectNames(map, specifiers, i) ==
    IF i > Len(specifiers) THEN map
    ELSE LET name == SpecifierName(specifiers[i])
             specifierData == [loc |-> SpecifierLoc(i)]
         IN  CollectNames(IF Truthy(name) THEN MapPush(map, name, specifierData)
                          ELSE map,
                          specifiers, i + 1)

ExtractNames(n) ==
    IF n.type = "ExportAllDeclaration"
    THEN Assign(EmptyObject, "*", <<[loc |-> GetFirstToken(n, 1)]>>)
    ELSE IF "specifiers" \in DOMAIN n
         THEN CollectNames(EmptyObject, n.specifiers, 1)
         ELSE EmptyObject

----------------------------------------------------------------------------
(* checkRestrictedPathAndReport *)

(* Variant: one "everything" report for each "*" occurrence *)
EverythingReportsEach(rule, src, names) ==
    IF "*" \in DOMAIN names
    THEN [k \in 1..Len(names["*"]) |->
            [messageId |-> IF Truthy(rule.message)
                           THEN "everythingWithCustomMessage" ELSE "everything",
             loc |-> names["*"][k].loc,
             importSource |-> src,
             importNames |-> rule.importNames,
             customMessage |-> rule.message]]
    ELSE <<>>

EverythingReports(rule, src, names) ==
    IF "*" \in DOMAIN names
    THEN <<[messageId |-> IF Truthy(rule.message)
                          THEN "everythingWithCustomMessage" ELSE "everything",
            loc |-> names["*"][1].loc,
            importSource |-> src,
            importNames |-> rule.importNames,
            customMessage |-> rule.message]>>
    ELSE <<>>

ImportNameReports(rule, src, names, importName) ==
    IF importName \in DOMAIN names
    THEN [k \in 1..Len(names[importName]) |->
            [messageId |-> IF Truthy(rule.message)
                           THEN "importNameWithCustomMessage" ELSE "importName",
             loc |-> names[importName][k].loc,
             importSource |-> src,
             customMessage |-> rule.message,
             importName |-> importName]]
    ELSE <<>>

(* Variant: a whole-module rule reports once for each name-key of the statement *)
checkRestrictedPathPerName(table, src, names) ==
    IF src \notin DOMAIN table THEN <<>>
    ELSE LET rule == table[src]
         IN  IF "importNames" \in DOMAIN rule
             THEN EverythingReports(rule, src, names)
                  \o Flatten([j \in 1..Len(rule.importNames) |->
                        ImportNameReports(rule, src, names, rule.importNames[j])])
             ELSE [k \in 1..Cardinality(DOMAIN names) |->
                     [messageId |-> IF Truthy(rule.message)
                                    THEN "pathWithCustomMessage" ELSE "path",
                      loc |-> NodeLoc,
                      importSource |-> src,
                      customMessage |-> rule.message]]

(* Variant: the "everything" report comes after the per-name reports *)
checkRestrictedPathNamesFirst(table, src, names) ==
    IF src \notin DOMAIN table THEN <<>>
    ELSE LET rule == table[src]
         IN  IF "importNames" \in DOMAIN rule
             THEN Flatten([j \in 1..Len(rule.importNames) |->
                        ImportNameReports(rule, src, names, rule.importNames[j])])
                  \o EverythingReports(rule, src, names)
             ELSE <<[messageId |-> IF Truthy(rule.message)
                                   THEN "pathWithCustomMessage" ELSE "path",
                     loc |-> NodeLoc,
                     importSource |-> src,
                     customMessage |-> rule.message]>>

checkRestrictedPathAndReport(table, src, names) ==
    IF src \notin DOMAIN table THEN <<>>
    ELSE LET rule == table[src]
         IN  IF "importNames" \in DOMAIN rule
             THEN EverythingReports(rule, src, names)
                  \o Flatten([j \in 1..Len(rule.importNames) |->
                        ImportNameReports(rule, src, names, rule.importNames[j])])
             ELSE <<[messageId |-> IF Truthy(rule.message)
                                   THEN "pathWithCustomMessage" ELSE "path",
                     loc |-> NodeLoc,
                     importSource |-> src,
                     customMessage |-> rule.message]>>

----------------------------------------------------------------------------
(* checkRestrictedPatternAndReport *)

(* Variant: the last matching element instead of the first *)
FindLast(matchers, src) ==
    LET hits == {i \in 1..Len(matchers) : Ignores(matchers[i].matcher, src)}
    IN  IF hits = {} THEN [tag |-> "undefined"]
        ELSE [tag |-> "object",
              value |-> matchers[CHOOSE i \in hits : \A j \in hits : i >= j]]

(* Array.prototype.find: the first element satisfying the predicate, or    *)
(* undefined.                                                              *)
Find(matchers, src) ==
    LET hits == {i \in 1..Len(matchers) : Ignores(matchers[i].matcher, src)}
    IN  IF hits = {} THEN [tag |-> "undefined"]
        ELSE [tag |-> "object",
              value |-> matchers[CHOOSE i \in hits : \A j \in hits : i <= j]]

(* matchedPattern === null *)
StrictEqualsNull(v) == v.tag = "null"

checkRestrictedPatternAndReport(matchers, src) ==
    IF Len(matchers) = 0 THEN [reports |-> <<>>, threw |-> FALSE]
    ELSE LET matchedPattern == Find(matchers, src)
         IN  IF StrictEqualsNull(matchedPattern)
             THEN [reports |-> <<>>, threw |-> FALSE]
             ELSE IF matchedPattern.tag = "undefined"
                  THEN \* TypeError: cannot read property 'message' of undefined
                       [reports |-> <<>>, threw |-> TRUE]
                  ELSE [reports |->
                          <<[messageId |-> IF Truthy(matchedPattern.value.message)
                                           THEN "patternWithCustomMessage"
                                           ELSE "patterns",
                             loc |-> NodeLoc,
                             importSource |-> src,
                             customMessage |-> matchedPattern.value.message]>>,
                        threw |-> FALSE]

----------------------------------------------------------------------------
(* checkNode *)

(* Variant: the pattern report is dropped when the path check has reported *)
checkNodeMerged(n) ==
    LET src == Trim(n.source)
        names == ExtractNames(n)
        pathReports == checkRestrictedPathAndReport(restrictedPathMessages, src, names)
        pat == checkRestrictedPatternAndReport(restrictedPatternMatchers, src)
    IN  [importSource |-> src,
         importNames |-> names,
         reports |-> IF pathReports # <<>> THEN pathReports
                     ELSE pathReports \o pat.reports,
         outcome |-> IF pat.threw THEN "threw" ELSE "returned"]

checkNode(n) ==
    LET src == Trim(n.source)
        names == ExtractNames(n)
        pathReports == checkRestrictedPathAndReport(restrictedPathMessages, src, names)
        pat == checkRestrictedPatternAndReport(restrictedPatternMatchers, src)
    IN  [importSource |-> src,
         importNames |-> names,
         reports |-> pathReports \o pat.reports,
         outcome |-> IF pat.threw THEN "threw" ELSE "returned"]

----------------------------------------------------------------------------
(* State machine *)

Init ==
    /\ options \in Options
    /\ phase = "configured"
    /\ listeners = FALSE
    /\ restrictedPathMessages = EmptyObject
    /\ restrictedPatternMatchers = <<>>
    /\ node = NoNode
    /\ outcome = "none"
    /\ importSource = <<>>
    /\ importNames = EmptyObject
    /\ reports = <<>>

Create ==
    /\ phase = "configured"
    /\ phase' = "idle"
    /\ IF NothingRestricted(options)
       THEN /\ listeners' = FALSE
            /\ UNCHANGED <<restrictedPathMessages, restrictedPatternMatchers>>
       ELSE /\ listeners' = TRUE
            /\ restrictedPathMessages' =
                   ReducePaths(EmptyObject, restrictedPaths(options))
            /\ restrictedPatternMatchers' = MapPatterns(restrictedPatterns(options))
    /\ UNCHANGED <<options, node, outcome, importSource, importNames, reports>>

(* What the traversal's visit of statement n does: nothing without a      *)
(* registered listener, nothing when the listener declines (`checked`       *)
(* false), checkNode(n) otherwise.                                          *)
Dispatch(n, checked) ==
    IF ~listeners
    THEN [importSource |-> importSource, importNames |-> importNames,
          reports |-> reports, outcome |-> "unhandled"]
    ELSE IF ~checked
    THEN [importSource |-> importSource, importNames |-> importNames,
          reports |-> reports, outcome |-> "skipped"]
    ELSE checkNode(n)

ImportDeclaration ==
    \E n \in ImportDeclarations :
        LET r == Dispatch(n, TRUE)
        IN  /\ phase = "idle"
            /\ phase' = "visited"
            /\ node' = n
            /\ outcome' = r.outcome
            /\ importSource' = r.importSource
            /\ importNames' = r.importNames
            /\ reports' = r.reports
            /\ UNCHANGED <<options, listeners, restrictedPathMessages,
                           restrictedPatternMatchers>>

ExportNamedDeclaration ==
    \E n \in ExportNamedDeclarations :
        LET r == Dispatch(n, "source" \in DOMAIN n)
        IN  /\ phase = "idle"
            /\ phase' = "visited"
            /\ node' = n
            /\ outcome' = r.outcome
            /\ importSource' = r.importSource
            /\ importNames' = r.importNames
            /\ reports' = r.reports
            /\ UNCHANGED <<options, listeners, restrictedPathMessages,
                           restrictedPatternMatchers>>

ExportAllDeclaration ==
    \E n \in ExportAllDeclarations :
        LET r == Dispatch(n, TRUE)
        IN  /\ phase = "idle"
            /\ phase' = "visited"
            /\ node' = n
            /\ outcome' = r.outcome
            /\ importSource' = r.importSource
            /\ importNames' = r.importNames
            /\ reports' = r.reports
            /\ UNCHANGED <<options, listeners, restrictedPathMessages,
                           restrictedPatternMatchers>>

(* The listener has returned; the traversal moves on to the next statement. *)
Leave ==
    /\ phase = "visited"
    /\ outcome # "threw"
    /\ phase' = "idle"
    /\ node' = NoNode
    /\ outcome' = "none"
    /\ importSource' = <<>>
    /\ importNames' = EmptyObject
    /\ reports' = <<>>
    /\ UNCHANGED <<options, listeners, restrictedPathMessages,
                   restrictedPatternMatchers>>

Next ==
    \/ Create
    \/ ImportDeclaration
    \/ ExportNamedDeclaration
    \/ ExportAllDeclaration
    \/ Leave

Spec == Init /\ [][Next]_vars

----------------------------------------------------------------------------
(* Vocabulary of the properties *)

(* checkNode ran for the statement in `node` *)
Checked == phase = "visited" /\ outcome \in {"returned", "threw"}

PathWholeKinds == {"path", "pathWithCustomMessage"}

EverythingKinds == {"everything", "everythingWithCustomMessage"}

NameKinds == {"importName", "importNameWithCustomMessage"}

PatternKinds == {"patterns", "patternWithCustomMessage"}

IsPathReport(d) == d.messageId \in PathWholeKinds \cup EverythingKinds \cup NameKinds

IsEverythingReport(d) == d.messageId \in EverythingKinds

IsNameReport(d) == d.messageId \in NameKinds

IsPatternReport(d) == d.messageId \in PatternKinds

PathReports == SelectSeq(reports, IsPathReport)

PatternReports == SelectSeq(reports, IsPatternReport)

(* positions of the configured pattern rules that match the statement's source *)
ConfiguredPattern(item) == IF item.type = "string" THEN item.value ELSE item.pattern

MatchingPatterns ==
    {i \in 1..Len(restrictedPatterns(options)) :
        Ignores(ConfiguredPattern(restrictedPatterns(options)[i]), Trim(node.source))}

Least(S) == CHOOSE i \in S : \A j \in S : i <= j

Source == Trim(node.source)

HasRule == Checked /\ Source \in DOMAIN restrictedPathMessages

WholeRule == HasRule /\ "importNames" \notin DOMAIN restrictedPathMessages[Source]

ScopedRule == HasRule /\ "importNames" \in DOMAIN restrictedPathMessages[Source]

(* the name-key a specifier stands for, read off the syntax tree *)
KeyOf(specifier) ==
    CASE specifier.type = "ImportDefaultSpecifier" -> "default"
      [] specifier.type = "ImportNamespaceSpecifier" -> "*"
      [] specifier.type = "ImportSpecifier" -> specifier.imported
      [] specifier.type = "ExportSpecifier" -> specifier.local

(* positions of the specifiers of the statement that stand for key k, ascending *)
PositionsOf(k) ==
    LET idx == {i \in 1..Len(node.specifiers) : KeyOf(node.specifiers[i]) = k}
    IN  [a \in 1..Cardinality(idx) |->
            CHOOSE i \in idx : Cardinality({j \in idx : j <= i}) = a]

OccurrencesOf(k) ==
    IF node.type = "ExportAllDeclaration"
    THEN (IF k = "*" THEN <<TokenLoc(2)>> ELSE <<>>)
    ELSE [a \in 1..Len(PositionsOf(k)) |-> SpecifierLoc(PositionsOf(k)[a])]

Range(f) == {f[i] : i \in DOMAIN f}

----------------------------------------------------------------------------
(* C1: with a non-empty pattern-rule list and an import source that no     *)
(* configured pattern matches, the pattern check emits no diagnostic and   *)
(* the listener returns normally (no exception, no read of a field of the  *)
(* absent match result).                                                   *)
C1_NoMatchIsSilent ==
    (Checked /\ Len(restrictedPatternMatchers) > 0 /\ MatchingPatterns = {})
        => (outcome = "returned" /\ PatternReports = <<>>)

----------------------------------------------------------------------------
(* C2: when one or more pattern rules match the import source, the pattern *)
(* check emits exactly one diagnostic, at the statement location, whose    *)
(* kind and custom message are those of the first matching rule in         *)
(* configuration order, even when later rules match too.                   *)
C2_FirstMatchingPatternWins ==
    (Checked /\ MatchingPatterns # {}) =>
        LET item == restrictedPatterns(options)[Least(MatchingPatterns)]
            custom == item.type = "object" /\ "message" \in DOMAIN item
        IN  /\ outcome = "returned"
            /\ Len(PatternReports) = 1
            /\ PatternReports[1].loc = NodeLoc
            /\ PatternReports[1].importSource = Source
            /\ PatternReports[1].messageId =
                   (IF custom THEN "patternWithCustomMessage" ELSE "patterns")
            /\ custom => PatternReports[1].customMessage = item.message

(* two rules match, the first without a message, the second with one *)
C2_Witness ==
    /\ Checked
    /\ Cardinality(MatchingPatterns) >= 2
    /\ restrictedPatterns(options)[1].type = "string"
    /\ "message" \in DOMAIN restrictedPatterns(options)[2]
    /\ Len(PatternReports) = 1

----------------------------------------------------------------------------
(* C3: a statement whose source has a whole-module exact path rule and     *)
(* also matches a pattern rule yields exactly two diagnostics: the path    *)
(* diagnostic first, the pattern diagnostic second, neither merged away.   *)
C3_PathAndPatternBothReport ==
    (WholeRule /\ MatchingPatterns # {}) =>
        /\ Len(reports) = 2
        /\ reports[1].messageId \in PathWholeKinds
        /\ reports[2].messageId \in PatternKinds

C3_Witness ==
    /\ WholeRule
    /\ MatchingPatterns # {}
    /\ Len(reports) = 2
    /\ reports[1].importSource = reports[2].importSource

----------------------------------------------------------------------------
(* C4: for a whole-module path rule (no importNames) every statement from  *)
(* the rule's source gets exactly one path diagnostic, at the statement    *)
(* location, PathWholeCustom if the rule has a message and PathWhole       *)
(* otherwise, whatever the statement's specifiers are.                     *)
C4_WholeRuleReportsOnce ==
    WholeRule =>
        LET rule == restrictedPathMessages[Source]
        IN  /\ Len(PathReports) = 1
            /\ PathReports[1].loc = NodeLoc
            /\ PathReports[1].importSource = Source
            /\ PathReports[1].messageId =
                   (IF Truthy(rule.message) THEN "pathWithCustomMessage" ELSE "path")
            /\ Truthy(rule.message) => PathReports[1].customMessage = rule.message

(* a whole-module rule with a message, met by a statement with several specifiers *)
C4_Witness ==
    /\ WholeRule
    /\ node.type = "ImportDeclaration"
    /\ Len(node.specifiers) >= 2
    /\ Len(PathReports) = 1
    /\ PathReports[1].messageId = "pathWithCustomMessage"

----------------------------------------------------------------------------
(* C5: for a name-scoped path rule the path check emits one NameRestricted *)
(* diagnostic per occurrence of each restricted name in the statement,     *)
(* each at that occurrence's location and, for a repeated name, in         *)
(* specifier order; a statement that binds only names outside importNames  *)
(* and has no "*" key gets no diagnostic from the path check.              *)
NameReportsOf(name) ==
    LET IsFor(d) == IsNameReport(d) /\ d.importName = name
        ds == SelectSeq(reports, IsFor)
    IN  [a \in 1..Len(ds) |-> ds[a].loc]

C5_OneReportPerOccurrence ==
    ScopedRule =>
        LET rule == restrictedPathMessages[Source]
        IN  /\ \A name \in Range(rule.importNames) :
                   NameReportsOf(name) = OccurrencesOf(name)
            /\ \A a \in 1..Len(reports) :
                   IsNameReport(reports[a]) =>
                       reports[a].importName \in Range(rule.importNames)
            /\ (DOMAIN importNames \cap (Range(rule.importNames) \cup {"*"}) = {})
                   => PathReports = <<>>

(* The same property for rules whose importNames lists each name once *)
C5_OneReportPerOccurrenceOfDistinctNames ==
    (ScopedRule /\ LET l == restrictedPathMessages[Source].importNames
                   IN  \A i, j \in 1..Len(l) : i # j => l[i] # l[j])
        => C5_OneReportPerOccurrence

----------------------------------------------------------------------------
(* C6: for a name-scoped path rule, a statement with the "*" name-key (a   *)
(* namespace import or an export-all) gets exactly one EverythingRestricted*)
(* diagnostic, located at the first "*" occurrence (the first namespace    *)
(* specifier, or the wildcard token of the export-all) and carrying the    *)
(* rule's whole restricted-name list; further "*" occurrences add none.    *)
EverythingReportsSeen == SelectSeq(reports, IsEverythingReport)

C6_EverythingReportedOnce ==
    (ScopedRule /\ "*" \in DOMAIN importNames) =>
        LET rule == restrictedPathMessages[Source]
            d == EverythingReportsSeen[1]
        IN  /\ Len(EverythingReportsSeen) = 1
            /\ d.loc = OccurrencesOf("*")[1]
            /\ node.type = "ExportAllDeclaration" =>
                   (d.loc.at = "token" /\ node.tokens[d.loc.i] = "*")
            /\ node.type # "ExportAllDeclaration" =>
                   /\ d.loc.at = "specifier"
                   /\ node.specifiers[d.loc.i].type = "ImportNamespaceSpecifier"
                   /\ \A j \in 1..(d.loc.i - 1) :
                          node.specifiers[j].type # "ImportNamespaceSpecifier"
            /\ d.importNames = rule.importNames
            /\ d.importSource = Source
            /\ d.messageId = (IF Truthy(rule.message)
                              THEN "everythingWithCustomMessage" ELSE "everything")

(* a statement with two namespace specifiers under a name-scoped rule *)
C6_Witness ==
    /\ ScopedRule
    /\ node.type = "ImportDeclaration"
    /\ Len(OccurrencesOf("*")) >= 2
    /\ Len(EverythingReportsSeen) = 1
    /\ EverythingReportsSeen[1].loc = SpecifierLoc(1)

----------------------------------------------------------------------------
(* C7: when the configuration yields no path rules and no pattern rules    *)
(* (an empty list, or an object whose paths and patterns are empty or      *)
(* missing), no listener is registered: checkNode never runs and no        *)
(* diagnostic is produced, whatever statements are visited.                *)
EmptyOrMissing(obj, key) == key \in DOMAIN obj => obj[key] = <<>>

ConfiguresNothing ==
    \/ options = <<>>
    \/ /\ Len(options) = 1
       /\ options[1].type = "object"
       /\ DOMAIN options[1] \subseteq {"type", "paths", "patterns"}
       /\ EmptyOrMissing(options[1], "paths")
       /\ EmptyOrMissing(options[1], "patterns")

C7_EmptyConfigurationDoesNothing ==
    ConfiguresNothing => (~Checked /\ reports = <<>>)

----------------------------------------------------------------------------
(* C8: when several configured path rules share a source, the exact-rule   *)
(* table holds the last of them in configuration order, as a whole: the    *)
(* message and the restricted-name list of the earlier ones are discarded. *)
C8_LastPathRuleWins ==
    (phase # "configured" /\ listeners) =>
        LET items == restrictedPaths(options)
        IN  /\ DOMAIN restrictedPathMessages = {PathKey(items[i]) : i \in 1..Len(items)}
            /\ \A i \in 1..Len(items) :
                (\A j \in (i + 1)..Len(items) : PathKey(items[j]) # PathKey(items[i])) =>
                    LET item == items[i]
                        entry == restrictedPathMessages[PathKey(item)]
                    IN  /\ ("importNames" \in DOMAIN entry) <=>
                               (item.type = "object" /\ "importNames" \in DOMAIN item)
                        /\ "importNames" \in DOMAIN entry =>
                               entry.importNames = item.importNames
                        /\ Truthy(entry.message) <=>
                               (item.type = "object" /\ "message" \in DOMAIN item)
                        /\ Truthy(entry.message) => entry.message = item.message

(* a name-scoped rule with a message, overwritten by a plain string for the same source *)
C8_Witness ==
    /\ phase = "idle"
    /\ Len(restrictedPaths(options)) = 2
    /\ restrictedPaths(options)[1].type = "object"
    /\ "importNames" \in DOMAIN restrictedPaths(options)[1]
    /\ "message" \in DOMAIN restrictedPaths(options)[1]
    /\ restrictedPaths(options)[2].type = "string"
    /\ PathKey(restrictedPaths(options)[1]) = PathKey(restrictedPaths(options)[2])
    /\ restrictedPathMessages[PathKey(restrictedPaths(options)[2])] = [message |-> Null]

----------------------------------------------------------------------------
(* C9: the name extractor appends and never overwrites: under each         *)
(* name-key the occurrence list has one entry per specifier deriving that  *)
(* key, in specifier order, so the occurrences add up to the number of     *)
(* specifiers; an export-all yields one occurrence under "*" only.         *)
RECURSIVE SumLen(_, _)
SumLen(map, keys) ==
    IF keys = {} THEN 0
    ELSE LET k == CHOOSE k \in keys : TRUE
         IN  Len(map[k]) + SumLen(map, keys \ {k})

C9_ExtractorKeepsEveryOccurrence ==
    Checked =>
        IF node.type = "ExportAllDeclaration"
        THEN /\ DOMAIN importNames = {"*"}
             /\ Len(importNames["*"]) = 1
             /\ node.tokens[importNames["*"][1].loc.i] = "*"
        ELSE /\ DOMAIN importNames =
                    {KeyOf(node.specifiers[i]) : i \in 1..Len(node.specifiers)}
             /\ \A k \in DOMAIN importNames :
                    [a \in 1..Len(importNames[k]) |-> importNames[k][a].loc]
                        = OccurrencesOf(k)
             /\ SumLen(importNames, DOMAIN importNames) = Len(node.specifiers)

(* two specifiers deriving the same key *)
C9_Witness ==
    /\ Checked
    /\ node.type = "ImportDeclaration"
    /\ Len(node.specifiers) = 2
    /\ DOMAIN importNames = {"x"}
    /\ Len(importNames["x"]) = 2

----------------------------------------------------------------------------
(* C10: within one statement under a name-scoped path rule the diagnostics *)
(* come in a fixed order: the EverythingRestricted diagnostic (if any)     *)
(* first, then the NameRestricted diagnostics grouped by the configured    *)
(* order of importNames, each group in specifier order, and the pattern    *)
(* diagnostic (if any) last.                                               *)
ExpectedNameOrder ==
    LET l == restrictedPathMessages[Source].importNames
    IN  Flatten([j \in 1..Len(l) |->
            [a \in 1..Len(OccurrencesOf(l[j])) |->
                <<l[j], OccurrencesOf(l[j])[a]>>]])

C10_DiagnosticOrder ==
    ScopedRule =>
        LET names == SelectSeq(reports, IsNameReport)
        IN  /\ \A i \in 1..Len(reports) :
                /\ IsEverythingReport(reports[i]) => i = 1
                /\ IsPatternReport(reports[i]) => i = Len(reports)
            /\ [a \in 1..Len(names) |-> <<names[a].importName, names[a].loc>>]
                   = ExpectedNameOrder

(* names imported in the reverse of their configured order, and a pattern match *)
C10_Witness ==
    /\ ScopedRule
    /\ restrictedPathMessages[Source].importNames = <<"y", "x">>
    /\ node.type = "ImportDeclaration"
    /\ Len(node.specifiers) = 2
    /\ KeyOf(node.specifiers[1]) = "x"
    /\ KeyOf(node.specifiers[2]) = "y"
    /\ Len(reports) = 3
    /\ IsNameReport(reports[1]) /\ reports[1].importName = "y"
    /\ IsNameReport(reports[2]) /\ reports[2].importName = "x"
    /\ IsPatternReport(reports[3])

====
